---- MODULE Spec2Model ----
(***************************************************************************)
(* Model of src/server/src/db/postgres.ts: the shared Prisma client        *)
(* (singleton kept in globalThis.__prisma__), its logging middleware, its  *)
(* "beforeExit" hook and the SIGINT/SIGTERM handlers.                      *)
(*                                                                         *)
(* Two specifications share the module evaluation step:                   *)
(*   Spec     module evaluations, signals, "beforeExit" events and the     *)
(*            settling of the disconnect requests they start;              *)
(*   SpecOps  module evaluations and operations going through the          *)
(*            middleware registered with client.$use.                      *)
(***************************************************************************)
EXTENDS Integers, Sequences, FiniteSets, TLC

\* Bounds of the model.
MaxEvals == 2
MaxRuns == 3
MaxOps == 1
MaxTime == 1
MaxLen == 1

VARIABLES
    isProd,       \* line 5: process.env.NODE_ENV === "production"
    slot,         \* globalThis.__prisma__: {} when undefined, {c} when client c
    slotHistory,  \* history: the values assigned to globalThis.__prisma__, in order
    clients,      \* the clients constructed so far (index = identity)
    prisma,       \* prisma[e]: the client exported by the e-th module evaluation
    listeners,    \* listeners[s]: the evaluations whose handler listens to signal s
    runs,         \* the runs of the shutdown handlers (gracefulExit, beforeExit hook)
    signals,      \* history: the signals delivered, with the evaluations done by then
    log,          \* the lines written to console.log / console.error, in order
    now,          \* Date.now()
    calls         \* the runs of the middleware, in flight and settled

vars == <<isProd, slot, slotHistory, clients, prisma, listeners, runs, signals,
          log, now, calls>>

lifeVars == <<runs, signals>>
opVars == <<now, calls>>

Signals == {"SIGINT", "SIGTERM"}

\* JS undefined, where a string is expected.
Undefined == "<undefined>"

(***************************************************************************)
(* Log lines.  One record shape for every line.                            *)
(***************************************************************************)
Line(stream, kind, model, action, ms, size, signal, err) ==
    [stream |-> stream, kind |-> kind, model |-> model, action |-> action,
     ms |-> ms, size |-> size, signal |-> signal, err |-> err]

NoSize == [kind |-> "none", n |-> 0]

\* line 58: console.log("[prisma] beforeExit => disconnect")
BeforeExitLine == Line("out", "beforeExit", "", "", 0, NoSize, "", "")

\* line 73: console.log(`[prisma] Received ${signal}. Closing DB connections...`)
ReceivedLine(signal) == Line("out", "received", "", "", 0, NoSize, signal, "")

\* line 76: console.error("[prisma] Error during disconnect:", err)
DisconnectErrorLine(err) == Line("err", "disconnectError", "", "", 0, NoSize, "", err)

(***************************************************************************)
(* The client.                                                             *)
(***************************************************************************)
\* lines 26-63: a new client, with one middleware and one "beforeExit" hook.
CreateClient == [state |-> "Active", middlewares |-> 1, beforeExitHooks |-> 1]

\* client.$disconnect() is called (lines 59, 74): a connected client starts closing.
DisconnectRequested(cs, c) ==
    IF cs[c].state = "Active" THEN [cs EXCEPT ![c].state = "Disconnecting"] ELSE cs

\* The outcomes of an awaited client.$disconnect(): closing an already closed
\* client does not fail.
DisconnectOutcomes(cs, c) ==
    IF cs[c].state = "Disconnected" THEN {"ok"} ELSE {"ok", "failed"}

\* The awaited client.$disconnect() settles.
DisconnectSettled(cs, c, outcome) ==
    IF outcome = "ok" THEN [cs EXCEPT ![c].state = "Disconnected"] ELSE cs

(***************************************************************************)
(* Module evaluation, lines 65-80.                                         *)
(***************************************************************************)
NeedsCreate_Always == TRUE

\* line 65: globalThis.__prisma__ ?? createClient()
NeedsCreate == slot = {}

StoresSlot_Always == TRUE

\* line 66: if (!isProd) globalThis.__prisma__ = prismaBase
StoresSlot == ~isProd

NewListeners_OnCreate(e) ==
    [s \in Signals |-> IF slot = {} THEN Append(listeners[s], e) ELSE listeners[s]]

\* lines 79-80: process.on("SIGINT", ...), process.on("SIGTERM", ...)
NewListeners(e) == [s \in Signals |-> Append(listeners[s], e)]

Evaluate ==
    /\ Len(prisma) < MaxEvals
    /\ LET create == NeedsCreate
           cs == IF create THEN Append(clients, CreateClient) ELSE clients
           prismaBase == IF create THEN Len(cs) ELSE CHOOSE c \in slot : TRUE
       IN  /\ clients' = cs
           /\ prisma' = Append(prisma, prismaBase)
           /\ IF StoresSlot
                 THEN /\ slot' = {prismaBase}
                      /\ slotHistory' = Append(slotHistory, prismaBase)
                 ELSE UNCHANGED <<slot, slotHistory>>
           /\ listeners' = NewListeners(Len(prisma) + 1)
    /\ UNCHANGED <<isProd, log>>
    /\ UNCHANGED lifeVars
    /\ UNCHANGED opVars

(***************************************************************************)
(* Shutdown: gracefulExit (lines 71-78) and the "beforeExit" hook          *)
(* (lines 57-60).  A handler runs up to its await in the step that starts  *)
(* it and resumes in a later step, when the disconnect request settles.    *)
(***************************************************************************)
Run(via, signal, delivery, client, after) ==
    [via |-> via, signal |-> signal, delivery |-> delivery, client |-> client,
     after |-> after, status |-> "pending", disconnect |-> "pending",
     errorLogged |-> FALSE]

\* lines 72-74, up to the await: log the signal, request the disconnect.
GracefulExitEnter(st, signal, delivery, c) ==
    LET lg == Append(st.log, ReceivedLine(signal))
    IN  [log |-> lg,
         runs |-> Append(st.runs, Run("signal", signal, delivery, c, Len(lg))),
         clients |-> DisconnectRequested(st.clients, c)]

\* process emits the signal: its listeners run in registration order.
RECURSIVE EmitSignal(_, _, _, _)
EmitSignal(ls, st, signal, delivery) ==
    IF ls = <<>> THEN st
    ELSE EmitSignal(Tail(ls),
                    GracefulExitEnter(st, signal, delivery, prisma[Head(ls)]),
                    signal, delivery)

Signal(s) ==
    /\ Len(prisma) >= 1
    /\ Len(runs) + Len(listeners[s]) <= MaxRuns
    /\ LET st == EmitSignal(listeners[s],
                            [log |-> log, runs |-> runs, clients |-> clients],
                            s, Len(signals) + 1)
       IN  /\ log' = st.log
           /\ runs' = st.runs
           /\ clients' = st.clients
    /\ signals' = Append(signals, [signal |-> s, evals |-> Len(prisma)])
    /\ UNCHANGED <<isProd, slot, slotHistory, prisma, listeners>>
    /\ UNCHANGED opVars

\* line 58: if (!isProd) console.log(...)
BeforeExitLines == IF ~isProd THEN <<BeforeExitLine>> ELSE <<>>

\* lines 58-59, up to the await.
BeforeExitEnter(st, c) ==
    LET lg == st.log \o BeforeExitLines
    IN  [log |-> lg,
         runs |-> Append(st.runs, Run("beforeExit", "", 0, c, Len(lg))),
         clients |-> DisconnectRequested(st.clients, c)]

\* the client emits "beforeExit": every hook registered on it runs.
RECURSIVE EmitBeforeExit(_, _, _)
EmitBeforeExit(n, st, c) ==
    IF n = 0 THEN st ELSE EmitBeforeExit(n - 1, BeforeExitEnter(st, c), c)

BeforeExit(c) ==
    /\ c \in DOMAIN clients
    /\ Len(runs) + clients[c].beforeExitHooks <= MaxRuns
    /\ LET st == EmitBeforeExit(clients[c].beforeExitHooks,
                                [log |-> log, runs |-> runs, clients |-> clients], c)
       IN  /\ log' = st.log
           /\ runs' = st.runs
           /\ clients' = st.clients
    /\ UNCHANGED <<isProd, slot, slotHistory, prisma, listeners, signals>>
    /\ UNCHANGED opVars

\* lines 75-77: the catch of gracefulExit logs the error and ends normally.
GracefulExitCatch(r, err) ==
    [run |-> [r EXCEPT !.status = "resolved", !.disconnect = "failed",
                       !.errorLogged = TRUE],
     lines |-> <<DisconnectErrorLine(err)>>]

\* lines 74-78: gracefulExit resumes after `await prisma.$disconnect()`.
GracefulExitResume(i) ==
    /\ i \in DOMAIN runs
    /\ runs[i].via = "signal"
    /\ runs[i].status = "pending"
    /\ \E outcome \in DisconnectOutcomes(clients, runs[i].client) :
         /\ clients' = DisconnectSettled(clients, runs[i].client, outcome)
         /\ IF outcome = "ok"
               THEN /\ runs' = [runs EXCEPT ![i].status = "resolved",
                                            ![i].disconnect = "ok"]
                    /\ log' = log
               ELSE LET c == GracefulExitCatch(runs[i], "E_disconnect")
                    IN  /\ runs' = [runs EXCEPT ![i] = c.run]
                        /\ log' = log \o c.lines
    /\ UNCHANGED <<isProd, slot, slotHistory, prisma, listeners, signals>>
    /\ UNCHANGED opVars

\* lines 59-60: the hook has no try/catch around its await; a rejected
\* disconnect rejects the hook's own promise.
BeforeExitFailed(r) == [r EXCEPT !.status = "rejected", !.disconnect = "failed"]

\* lines 59-60: the "beforeExit" hook resumes after `await client.$disconnect()`.
BeforeExitResume(i) ==
    /\ i \in DOMAIN runs
    /\ runs[i].via = "beforeExit"
    /\ runs[i].status = "pending"
    /\ \E outcome \in DisconnectOutcomes(clients, runs[i].client) :
         /\ clients' = DisconnectSettled(clients, runs[i].client, outcome)
         /\ runs' = IF outcome = "ok"
                       THEN [runs EXCEPT ![i].status = "resolved",
                                         ![i].disconnect = "ok"]
                       ELSE [runs EXCEPT ![i] = BeforeExitFailed(runs[i])]
    /\ UNCHANGED <<isProd, slot, slotHistory, prisma, listeners, signals, log>>
    /\ UNCHANGED opVars

(***************************************************************************)
(* The middleware registered with client.$use, lines 29-55.                *)
(* JS values are records: t is the kind of value, n its number, truth      *)
(* value, length or identity.                                              *)
(***************************************************************************)
Value(t, n) == [t |-> t, n |-> n]

VUndefined == Value("undefined", 0)

\* what the continuation can resolve to
Results ==
    {Value("null", 0), VUndefined, Value("number", 0), Value("boolean", 1),
     Value("object", 0)}
        \cup {Value("array", n) : n \in 0..MaxLen}

\* what the continuation can reject with
Errors == {Value("error", 1), Value("error", 2)}

\* line 18: { model?: string; action?: string }
Params ==
    [model : {Undefined, "User"}, action : {Undefined, "findMany"}]

\* JS typeof
TypeOf(v) == IF v.t \in {"null", "array", "object", "error"} THEN "object" ELSE v.t

\* JS truthiness
Truthy(v) ==
    CASE v.t \in {"null", "undefined"} -> FALSE
      [] v.t \in {"number", "string"} -> v.n # 0
      [] v.t = "boolean" -> v.n = 1
      [] OTHER -> TRUE

\* Array.isArray
IsArray(v) == v.t = "array"

\* the ?? operator of lines 43-44 and 50-51
OrDefault(x, d) == IF x = Undefined THEN d ELSE x

SizeAnnotation_TypeofOnly(result) ==
    IF IsArray(result) THEN [kind |-> "items", n |-> result.n]
    ELSE IF TypeOf(result) = "object" THEN [kind |-> "item", n |-> 1]
    ELSE NoSize

\* lines 36-42
SizeAnnotation(result) ==
    LET isObject == Truthy(result) /\ TypeOf(result) = "object"
    IN  IF IsArray(result) THEN [kind |-> "items", n |-> result.n]
        ELSE IF isObject THEN [kind |-> "item", n |-> 1]
        ELSE NoSize

\* line 45: console.log(`[prisma] ${model}.${action} (${ms} ms)${size}`)
OpLine(model, action, ms, size) == Line("out", "op", model, action, ms, size, "", "")

\* line 52: console.error(`[prisma] ${model}.${action} FAILED after ${ms} ms`)
FailedLine(model, action, ms) == Line("err", "failed", model, action, ms, NoSize, "", "")

SuccessLines_Always(p, ms, result) ==
    <<OpLine(OrDefault(p.model, "$internal"), OrDefault(p.action, "$op"), ms,
             SizeAnnotation(result))>>

\* lines 35-46
SuccessLines(p, ms, result) ==
    IF ~isProd
       THEN <<OpLine(OrDefault(p.model, "$internal"), OrDefault(p.action, "$op"),
                     ms, SizeAnnotation(result))>>
       ELSE <<>>

TryBranch_NoReturn(p, ms, result) ==
    [lines |-> SuccessLines(p, ms, result),
     caller |-> [kind |-> "return", v |-> VUndefined]]

\* lines 33-47: what the try branch logs and hands to the caller
TryBranch(p, ms, result) ==
    [lines |-> SuccessLines(p, ms, result),
     caller |-> [kind |-> "return", v |-> result]]

CatchBranch_Swallow(p, ms, e) ==
    [lines |-> <<FailedLine(OrDefault(p.model, "$internal"),
                            OrDefault(p.action, "$op"), ms)>>,
     caller |-> [kind |-> "return", v |-> VUndefined]]

\* lines 49-53: what the catch branch logs and hands to the caller
CatchBranch(p, ms, e) ==
    [lines |-> <<FailedLine(OrDefault(p.model, "$internal"),
                            OrDefault(p.action, "$op"), ms)>>,
     caller |-> [kind |-> "throw", v |-> e]]

\* line 32: next(params), called once with the descriptor received
NextArgs(p) == <<p>>

\* lines 30-32, up to the await: take the start time, call next(params).
MiddlewareEnter(e, p) ==
    /\ e \in DOMAIN prisma
    /\ clients[prisma[e]].middlewares >= 1
    /\ Len(calls) < MaxOps
    /\ calls' = Append(calls,
                       [params |-> p, start |-> now,
                        nextArgs |-> NextArgs(p), status |-> "pending",
                        cont |-> [kind |-> "pending", v |-> VUndefined],
                        caller |-> [kind |-> "pending", v |-> VUndefined],
                        end |-> now, lines |-> <<>>, logAt |-> 0])
    /\ UNCHANGED <<isProd, slot, slotHistory, clients, prisma, listeners, log, now>>
    /\ UNCHANGED lifeVars

\* lines 32-47: next(params) resolved with result.
MiddlewareResolve(i, result) ==
    /\ i \in DOMAIN calls
    /\ calls[i].status = "pending"
    /\ LET b == TryBranch(calls[i].params, now - calls[i].start, result)
       IN  /\ log' = log \o b.lines
           /\ calls' = [calls EXCEPT ![i].status = "settled",
                                     ![i].cont = [kind |-> "return", v |-> result],
                                     ![i].caller = b.caller,
                                     ![i].end = now,
                                     ![i].lines = b.lines,
                                     ![i].logAt = Len(log)]
    /\ UNCHANGED <<isProd, slot, slotHistory, clients, prisma, listeners, now>>
    /\ UNCHANGED lifeVars

\* lines 48-54: next(params) rejected with e.
MiddlewareReject(i, e) ==
    /\ i \in DOMAIN calls
    /\ calls[i].status = "pending"
    /\ LET b == CatchBranch(calls[i].params, now - calls[i].start, e)
       IN  /\ log' = log \o b.lines
           /\ calls' = [calls EXCEPT ![i].status = "settled",
                                     ![i].cont = [kind |-> "throw", v |-> e],
                                     ![i].caller = b.caller,
                                     ![i].end = now,
                                     ![i].lines = b.lines,
                                     ![i].logAt = Len(log)]
    /\ UNCHANGED <<isProd, slot, slotHistory, clients, prisma, listeners, now>>
    /\ UNCHANGED lifeVars

\* Date.now() advances.
Tick ==
    /\ now < MaxTime
    /\ now' = now + 1
    /\ UNCHANGED <<isProd, slot, slotHistory, clients, prisma, listeners, log, calls>>
    /\ UNCHANGED lifeVars

(***************************************************************************)
(* Initial state and the lifecycle specification.                          *)
(***************************************************************************)
Init ==
    /\ isProd \in BOOLEAN
    /\ slot = {}
    /\ slotHistory = <<>>
    /\ clients = <<>>
    /\ prisma = <<>>
    /\ listeners = [s \in Signals |-> <<>>]
    /\ runs = <<>>
    /\ signals = <<>>
    /\ log = <<>>
    /\ now = 0
    /\ calls = <<>>

Next ==
    \/ Evaluate
    \/ \E s \in Signals : Signal(s)
    \/ \E c \in DOMAIN clients : BeforeExit(c)
    \/ \E i \in DOMAIN runs : GracefulExitResume(i)
    \/ \E i \in DOMAIN runs : BeforeExitResume(i)

Spec == Init /\ [][Next]_vars

NextOps ==
    \/ Evaluate
    \/ Tick
    \/ \E e \in DOMAIN prisma, p \in Params : MiddlewareEnter(e, p)
    \/ \E i \in DOMAIN calls, result \in Results : MiddlewareResolve(i, result)
    \/ \E i \in DOMAIN calls, e \in Errors : MiddlewareReject(i, e)

SpecOps == Init /\ [][NextOps]_vars

(***************************************************************************)
(* Properties.                                                             *)
(***************************************************************************)

\* C1: in non-production mode, whatever the number of module evaluations,
\* every evaluation exports the same client and createClient has run at
\* most once.
C1_SingletonInNonProd ==
    ~isProd =>
        /\ Len(clients) <= 1
        /\ \A i, j \in DOMAIN prisma : prisma[i] = prisma[j]

C1_Witness == ~isProd /\ Len(prisma) >= 2 /\ Len(clients) = 1

\* C9 as stated: the slot is written at most once per process in
\* non-production mode and never in production mode.
C9_SlotWrittenAtMostOnce ==
    /\ ~isProd => Len(slotHistory) <= 1
    /\ isProd => slotHistory = <<>>

\* C9 amended: in non-production mode every module evaluation assigns the
\* slot, always with the same client, so that its value changes once only
\* (from undefined to that client); in production mode it is never written.
C9_SlotValueSetOnce ==
    /\ isProd => slotHistory = <<>> /\ slot = {}
    /\ ~isProd =>
          /\ Len(slotHistory) = Len(prisma)
          /\ \A i \in DOMAIN slotHistory :
                slotHistory[i] = slotHistory[1] /\ slot = {slotHistory[i]}

C9_Witness == ~isProd /\ Len(slotHistory) >= 2

\* C10: every evaluation adds one SIGINT and one SIGTERM listener and none is
\* removed; every client carries the one middleware and the one "beforeExit"
\* hook of its construction; in non-production mode a signal delivered after
\* k evaluations starts exactly k disconnect requests on the shared client,
\* each right after its own log line naming the signal.
C10_ListenersPerEvaluation ==
    /\ \A s \in Signals : listeners[s] = [e \in 1..Len(prisma) |-> e]
    /\ \A c \in DOMAIN clients :
          clients[c].middlewares = 1 /\ clients[c].beforeExitHooks = 1
    /\ ~isProd =>
          /\ Len(clients) <= 1
          /\ \A d \in DOMAIN signals :
                LET rs == {i \in DOMAIN runs :
                              runs[i].via = "signal" /\ runs[i].delivery = d}
                IN  /\ Cardinality(rs) = signals[d].evals
                    /\ \A i \in rs :
                          /\ runs[i].client = 1
                          /\ runs[i].signal = signals[d].signal
                          /\ runs[i].after \in DOMAIN log
                          /\ log[runs[i].after] = ReceivedLine(signals[d].signal)
                    /\ \A i, j \in rs : i # j => runs[i].after # runs[j].after

C10_Witness ==
    /\ ~isProd
    /\ \E d \in DOMAIN signals :
          /\ signals[d].evals >= 2
          /\ Cardinality({i \in DOMAIN runs : runs[i].delivery = d}) >= 2

\* C6: on both trigger paths, a failed disconnect is logged and does not
\* escape the handler that awaited it.
C6_DisconnectFailureNeverEscapes ==
    \A i \in DOMAIN runs :
        runs[i].disconnect = "failed" =>
            runs[i].status = "resolved" /\ runs[i].errorLogged

\* C7: two or more runs of the shutdown action on a client, in sequence or
\* overlapping and from either trigger, never end with an error escaping, and
\* once they have all ended without a failed disconnect the client is
\* disconnected.
C7_ShutdownTwiceIsSafe ==
    \A c \in DOMAIN clients :
        LET rs == {i \in DOMAIN runs : runs[i].client = c}
        IN  Cardinality(rs) >= 2 =>
               /\ \A i \in rs : runs[i].status # "rejected"
               /\ (\A i \in rs : runs[i].disconnect = "ok")
                     => clients[c].state = "Disconnected"

\* The lines a settled call wrote are in the log where the call wrote them.
Logged(i) ==
    /\ calls[i].logAt + Len(calls[i].lines) <= Len(log)
    /\ \A k \in DOMAIN calls[i].lines : log[calls[i].logAt + k] = calls[i].lines[k]

\* C2: a call whose continuation fails writes exactly one error line, with
\* the model name or "$internal", the action name or "$op" and the elapsed
\* milliseconds, in both modes, and its caller gets the continuation's error.
C2_FailureLoggedAndRethrown ==
    \A i \in DOMAIN calls :
        calls[i].cont.kind = "throw" =>
            LET p == calls[i].params
            IN  /\ calls[i].lines =
                      <<[stream |-> "err", kind |-> "failed",
                         model |-> IF p.model = Undefined THEN "$internal" ELSE p.model,
                         action |-> IF p.action = Undefined THEN "$op" ELSE p.action,
                         ms |-> calls[i].end - calls[i].start,
                         size |-> NoSize, signal |-> "", err |-> ""]>>
                /\ Logged(i)
                /\ calls[i].caller = [kind |-> "throw", v |-> calls[i].cont.v]

C2_Witness ==
    \E i \in DOMAIN calls :
        /\ calls[i].cont.kind = "throw"
        /\ calls[i].params.model = Undefined
        /\ calls[i].end > calls[i].start

\* C3: a call whose continuation succeeds hands its caller the value the
\* continuation returned, has called the continuation once with the
\* descriptor it received, and the steps of the middleware change nothing of
\* the program's state but the log.
C3_SuccessIsTransparent ==
    /\ [](\A i \in DOMAIN calls :
            /\ calls[i].nextArgs = <<calls[i].params>>
            /\ calls[i].cont.kind = "return" =>
                  calls[i].caller = [kind |-> "return", v |-> calls[i].cont.v])
    /\ [][calls' # calls =>
            UNCHANGED <<isProd, slot, slotHistory, clients, prisma, listeners,
                        runs, signals, now>>]_vars

C3_Witness ==
    \E i \in DOMAIN calls :
        /\ calls[i].cont.kind = "return"
        /\ calls[i].cont.v = Value("array", 1)
        /\ calls[i].params.model = "User"

\* C4: in non-production mode the size annotation of a successful call's
\* line is items=N for a sequence of length N, item=1 for a non-null
\* structured value that is no sequence, and absent for any other result.
C4_SizeAnnotation ==
    \A i \in DOMAIN calls :
        (calls[i].cont.kind = "return" /\ ~isProd) =>
            LET v == calls[i].cont.v
            IN  /\ Len(calls[i].lines) = 1
                /\ calls[i].lines[1].size =
                      CASE v.t = "array" -> [kind |-> "items", n |-> v.n]
                        [] v.t = "object" -> [kind |-> "item", n |-> 1]
                        [] OTHER -> [kind |-> "none", n |-> 0]

C4_Witness ==
    /\ ~isProd
    /\ \E i \in DOMAIN calls :
          /\ calls[i].cont.kind = "return"
          /\ calls[i].cont.v = Value("null", 0)
          /\ calls[i].lines # <<>>

\* The number of lines the first n calls wrote.
RECURSIVE LinesOfCalls(_)
LinesOfCalls(n) == IF n = 0 THEN 0 ELSE Len(calls[n].lines) + LinesOfCalls(n - 1)

\* C5: a successful call writes exactly one line, naming the model or
\* "$internal" and the action or "$op", in non-production mode and no line in
\* production mode; a failed call writes an error line in production mode too.
C5_LogLinesPerMode ==
    /\ Len(log) = LinesOfCalls(Len(calls))
    /\ \A i \in DOMAIN calls :
           LET p == calls[i].params
               model == IF p.model = Undefined THEN "$internal" ELSE p.model
               action == IF p.action = Undefined THEN "$op" ELSE p.action
           IN  /\ (calls[i].cont.kind = "return" /\ ~isProd) =>
                     /\ Len(calls[i].lines) = 1
                     /\ calls[i].lines[1].stream = "out"
                     /\ calls[i].lines[1].kind = "op"
                     /\ calls[i].lines[1].model = model
                     /\ calls[i].lines[1].action = action
                     /\ Logged(i)
               /\ (calls[i].cont.kind = "return" /\ isProd) =>
                     calls[i].lines = <<>>
               /\ (calls[i].cont.kind = "throw" /\ isProd) =>
                     /\ Len(calls[i].lines) = 1
                     /\ calls[i].lines[1].stream = "err"
                     /\ calls[i].lines[1].kind = "failed"
                     /\ Logged(i)
               /\ calls[i].status = "pending" => calls[i].lines = <<>>

C5_Witness ==
    /\ isProd
    /\ \E i \in DOMAIN calls : calls[i].cont.kind = "return"
    /\ log = <<>>

====
